---- MODULE Spec2Model ----
(***************************************************************************)
(* Remote style manager (src/code.ts): the scan of the current page for    *)
(* remote styles, the catalog of local styles, the bulk rebind (swapStyle) *)
(* and the materialisation of a remote style (importRemoteStyle), run by   *)
(* the message handler figma.ui.onmessage and by the initial scan.         *)
(*                                                                         *)
(* Every activation of an async function is a task.  A task is suspended   *)
(* at one host call (its pc names the awaited call); one action resumes it *)
(* with the outcome of that call and runs the synchronous code up to the   *)
(* next await.  A host call either answers or raises a fault.              *)
(***************************************************************************)
EXTENDS Integers, Sequences, FiniteSets, TLC

(* ------------------------------ bounds --------------------------------- *)

\* inbound messages delivered in one run
MaxMsgs == 2
\* length of the layerIds list of a request
MaxLen == 2
\* host calls that raise a fault in one run
MaxFaults == 1
\* tasks the host lets be suspended at the same time
MaxOverlap == 2
\* inbound messages delivered in one run in which tasks overlap
MaxRaced == 1

(* --------------------------- the host document -------------------------- *)

\* the five bindings of a node, in the order traverse reads them
Bindings == <<"fillStyleId", "strokeStyleId", "textStyleId", "effectStyleId", "gridStyleId">>

BindingKind(b) ==
    CASE b = "fillStyleId" -> "FILL"
      [] b = "strokeStyleId" -> "FILL"
      [] b = "textStyleId" -> "TEXT"
      [] b = "effectStyleId" -> "EFFECT"
      [] b = "gridStyleId" -> "GRID"

\* figma.mixed, the one value of a binding or property that is not a string
Mixed == "figma.mixed"

UnknownName == "Unknown Style (Remote)"

NodeIds == {"L1", "L2", "L3"}

\* figma.currentPage.children
PageChildren == <<"L1", "L3">>

NodeType(n) ==
    CASE n = "L1" -> "FRAME"
      [] n = "L2" -> "TEXT"
      [] n = "L3" -> "RECTANGLE"

NodeName(n) ==
    CASE n = "L1" -> "Card"
      [] n = "L2" -> "Title"
      [] n = "L3" -> "Divider"

\* 'children' in node
HasChildren(n) == NodeType(n) = "FRAME"

Children(n) == IF n = "L1" THEN <<"L2">> ELSE <<>>

\* '<property>' in node, by node type
Exposes(n, p) ==
    CASE NodeType(n) = "FRAME" ->
            p \in {"fillStyleId", "strokeStyleId", "effectStyleId", "gridStyleId",
                   "fills", "effects", "layoutGrids"}
      [] NodeType(n) = "TEXT" ->
            p \in {"fillStyleId", "strokeStyleId", "textStyleId", "effectStyleId",
                   "fills", "effects"}
      [] NodeType(n) = "RECTANGLE" ->
            p \in {"fillStyleId", "strokeStyleId", "effectStyleId", "fills", "effects"}

\* the properties of a text node that importRemoteStyle tests against figma.mixed
TextProps == {"fontSize", "fontName", "lineHeight", "letterSpacing", "textCase", "textDecoration"}

\* identifiers of the styles a fresh createXxxStyle() call returns, in order
NewStyleIds == <<"S:501", "S:502", "S:503", "S:504", "S:505", "S:506", "S:507", "S:508">>

\* the style registry a session starts with: S:999 and S:301 belong to a
\* library that is not linked (no entry), S:201 and S:401 are remote-flagged,
\* and so is S:112, which no node is bound to
InitialRegistry ==
    [s \in {"S:111", "S:112", "S:201", "S:202", "S:302", "S:401", "S:402"} |->
        CASE s = "S:111" -> [name |-> "Brand/Primary", remote |-> FALSE, kind |-> "FILL"]
          [] s = "S:112" -> [name |-> "Lib/Accent", remote |-> TRUE, kind |-> "FILL"]
          [] s = "S:201" -> [name |-> "Lib/Body", remote |-> TRUE, kind |-> "TEXT"]
          [] s = "S:202" -> [name |-> "Body", remote |-> FALSE, kind |-> "TEXT"]
          [] s = "S:302" -> [name |-> "Shadow", remote |-> FALSE, kind |-> "EFFECT"]
          [] s = "S:401" -> [name |-> "Lib/Columns", remote |-> TRUE, kind |-> "GRID"]
          [] s = "S:402" -> [name |-> "Columns", remote |-> FALSE, kind |-> "GRID"]]

\* what the four getLocalXxxStylesAsync calls enumerate, in the document's order
InitialCollections ==
    [k \in {"FILL", "TEXT", "EFFECT", "GRID"} |->
        CASE k = "FILL" -> <<"S:111", "S:112">>
          [] k = "TEXT" -> <<"S:202">>
          [] k = "EFFECT" -> <<"S:302">>
          [] k = "GRID" -> <<"S:401", "S:402">>]

\* the documents a session starts from.  L1 is a frame that holds the text
\* L2, and L3 is a rectangle beside it.  In "A" the fill and the stroke of L1
\* share the unresolvable S:999, and the stroke of L2 and the fill of L3
\* share the local S:111; in "B" L1 and L3 share S:999 as fill, and L2, whose
\* text properties are mixed, has it as stroke.  The fills of L2 are mixed in
\* both.
Documents ==
    { [n \in NodeIds |->
          CASE n = "L1" -> [fillStyleId |-> "S:999",
                            strokeStyleId |-> IF v = "A" THEN "S:999" ELSE "",
                            textStyleId |-> "", effectStyleId |-> "",
                            gridStyleId |-> "S:401", fills |-> "paints", mixedProps |-> {}]
            [] n = "L2" -> [fillStyleId |-> Mixed,
                            strokeStyleId |-> IF v = "A" THEN "S:111" ELSE "S:999",
                            textStyleId |-> "S:201", effectStyleId |-> "S:301",
                            gridStyleId |-> "", fills |-> Mixed,
                            mixedProps |-> IF v = "A" THEN {} ELSE {"fontSize"}]
            [] n = "L3" -> [fillStyleId |-> IF v = "A" THEN "S:111" ELSE "S:999",
                            strokeStyleId |-> "",
                            textStyleId |-> "", effectStyleId |-> "",
                            gridStyleId |-> "", fills |-> "paints", mixedProps |-> {}]]
      : v \in {"A", "B"} }

\* the layer ids a request may name: the frame, the text in it, and one id
\* that no longer resolves (L3 is never named: it is the layer left alone)
LayerIdPool == {"L1", "L2", "L9"}

RECURSIVE SeqsUpTo(_, _)
SeqsUpTo(S, n) ==
    IF n = 0 THEN {<<>>}
    ELSE LET shorter == SeqsUpTo(S, n - 1)
         IN shorter \cup {Append(q, x) : q \in {r \in shorter : Len(r) = n - 1}, x \in S}

\* styleType, oldStyleId and newStyleId of a request: a remote style of each
\* kind replaced by a local one of that kind, and a style replaced by itself
StyleChoices ==
    { <<"FILL", "S:999", "S:111">>, <<"FILL", "S:111", "S:111">>,
      <<"TEXT", "S:201", "S:202">>, <<"EFFECT", "S:301", "S:302">>,
      <<"GRID", "S:401", "S:402">> }

\* a message without payload
NoRequest ==
    [layerIds |-> <<>>, styleType |-> "", oldStyleId |-> "", newStyleId |-> "",
     styleName |-> ""]

LayerIdLists == SeqsUpTo(LayerIdPool, MaxLen)

\* the payloads of a message of each type (import-style calls its oldStyleId
\* styleId, and has no newStyleId)
Payloads(type) ==
    CASE type = "scan" -> {NoRequest}
      [] type = "select-layers" -> {[NoRequest EXCEPT !.layerIds = l] : l \in LayerIdLists}
      [] type = "swap-style" ->
            {[layerIds |-> l, styleType |-> c[1], oldStyleId |-> c[2],
              newStyleId |-> c[3], styleName |-> ""]
             : l \in LayerIdLists, c \in StyleChoices}
      [] type = "import-style" ->
            {[layerIds |-> l, styleType |-> c[1], oldStyleId |-> c[2],
              newStyleId |-> "", styleName |-> "Recovered"]
             : l \in LayerIdLists, c \in StyleChoices}

(* ------------------------------- state --------------------------------- *)

VARIABLES
    nodes,        \* node id -> its bindings and source properties
    registry,     \* style id -> the style, for every style of the document
    collections,  \* kind -> the ids getLocalXxxStylesAsync enumerates
    tasks,        \* the activations: the initial scan, then one per message
    outbox,       \* what was sent to the UI: notifications and scan results
    selection,    \* figma.currentPage.selection
    closed,       \* figma.closePlugin() was called
    req,          \* the payload of the message the UI sends (and sends again)
    faults,       \* host calls that raised a fault so far
    flaky         \* the host calls that can raise a fault in this session

vars == <<nodes, registry, collections, tasks, outbox, selection, closed, req,
          faults, flaky>>

\* the host call can raise a fault now
MayThrow(call) == faults < MaxFaults /\ call \in flaky

(* ------------------------- findLayersWithRemoteStyles ------------------- *)

RECURSIVE traverse(_), traverseAll(_)
\* the nodes in the order traverse enters them: a node, then its children
traverse(n) == <<n>> \o (IF HasChildren(n) THEN traverseAll(Children(n)) ELSE <<>>)
traverseAll(cs) == IF cs = <<>> THEN <<>> ELSE traverse(Head(cs)) \o traverseAll(Tail(cs))

\* the nodes the loop over figma.currentPage.children reaches, in order
VisitOrder == traverseAll(PageChildren)

\* a position of the walk: the p-th (node, binding) test, five per node
NumChecks == 5 * Len(VisitOrder)
CheckNode(p) == VisitOrder[((p - 1) \div 5) + 1]
CheckBinding(p) == Bindings[((p - 1) % 5) + 1]

\* the test guarding a checkStyle call, and checkStyle's own typeof test:
\* the binding exists, is truthy and is a string
NeedsLookup(doc, p) ==
    /\ Exposes(CheckNode(p), CheckBinding(p))
    /\ doc[CheckNode(p)][CheckBinding(p)] # ""
    /\ doc[CheckNode(p)][CheckBinding(p)] # Mixed

\* the next position after p whose checkStyle call reaches getStyleByIdAsync
\* (0: the walk is over)
NextCheck(doc, p) ==
    LET later == {q \in (p + 1)..NumChecks : NeedsLookup(doc, q)}
    IN IF later = {} THEN 0 ELSE CHOOSE q \in later : \A r \in later : q <= r

HasEntry(map, styleId) == \E i \in 1..Len(map) : map[i].styleId = styleId

LayerOf(n) == [id |-> n, name |-> NodeName(n), type |-> NodeType(n)]

\* a layer list that names a node once however many of its bindings hold the
\* style
AddLayerOnce(map, styleId, styleName, styleType, n) ==
    LET withEntry ==
            IF HasEntry(map, styleId) THEN map
            ELSE Append(map, [styleId |-> styleId, styleName |-> styleName,
                              styleType |-> styleType, layers |-> <<>>])
    IN [i \in 1..Len(withEntry) |->
            IF /\ withEntry[i].styleId = styleId
               /\ \A l \in 1..Len(withEntry[i].layers) : withEntry[i].layers[l].id # n
            THEN [withEntry[i] EXCEPT !.layers = Append(@, LayerOf(n))]
            ELSE withEntry[i]]

\* a map whose new entries go to the front
AddLayerFront(map, styleId, styleName, styleType, n) ==
    LET withEntry ==
            IF HasEntry(map, styleId) THEN map
            ELSE <<[styleId |-> styleId, styleName |-> styleName,
                    styleType |-> styleType, layers |-> <<>>]>> \o map
    IN [i \in 1..Len(withEntry) |->
            IF withEntry[i].styleId = styleId
            THEN [withEntry[i] EXCEPT !.layers = Append(@, LayerOf(n))]
            ELSE withEntry[i]]

\* remoteStylesMap.set when the id is new, then info.layers.push
AddLayer(map, styleId, styleName, styleType, n) ==
    LET withEntry ==
            IF HasEntry(map, styleId) THEN map
            ELSE Append(map, [styleId |-> styleId, styleName |-> styleName,
                              styleType |-> styleType, layers |-> <<>>])
    IN [i \in 1..Len(withEntry) |->
            IF withEntry[i].styleId = styleId
            THEN [withEntry[i] EXCEPT !.layers = Append(@, LayerOf(n))]
            ELSE withEntry[i]]

\* figma.getStyleByIdAsync: the style, or null
NoStyle == [name |-> "", remote |-> FALSE, kind |-> "", null |-> TRUE]
getStyleById(reg, styleId) ==
    IF styleId \in DOMAIN reg
    THEN [name |-> reg[styleId].name, remote |-> reg[styleId].remote,
          kind |-> reg[styleId].kind, null |-> FALSE]
    ELSE NoStyle

\* a checkStyle whose catch clause only logs the fault
checkStyleFailClosed(map, reg, n, styleId, styleType, thrown) ==
    LET style == getStyleById(reg, styleId)
    IN IF thrown THEN map
       ELSE IF style.null THEN AddLayer(map, styleId, UnknownName, styleType, n)
       ELSE IF style.remote THEN AddLayer(map, styleId, style.name, styleType, n)
       ELSE map

\* checkStyle after its await: thrown is the lookup raising a fault
checkStyle(map, reg, n, styleId, styleType, thrown) ==
    LET style == getStyleById(reg, styleId)
    IN IF thrown THEN AddLayer(map, styleId, UnknownName, styleType, n)
       ELSE IF style.null THEN AddLayer(map, styleId, UnknownName, styleType, n)
       ELSE IF style.remote THEN AddLayer(map, styleId, style.name, styleType, n)
       ELSE map

(* ------------------------------ getLocalStyles -------------------------- *)

RECURSIVE keepAll(_, _, _)
\* a forEach without the test of style.remote
keepAll(reg, ids, kind) ==
    IF ids = <<>> THEN <<>>
    ELSE <<[id |-> Head(ids), name |-> reg[Head(ids)].name, type |-> kind]>>
            \o keepAll(reg, Tail(ids), kind)

RECURSIVE keepLocal(_, _, _)
\* one forEach of getLocalStyles over the snapshot of one collection
keepLocal(reg, ids, kind) ==
    IF ids = <<>> THEN <<>>
    ELSE LET s == Head(ids)
             rest == keepLocal(reg, Tail(ids), kind)
         IN IF ~reg[s].remote
            THEN <<[id |-> s, name |-> reg[s].name, type |-> kind]>> \o rest
            ELSE rest

\* the four forEach loops, in the order of the source
getLocalStyles(reg, snap) ==
    keepLocal(reg, snap[1], "FILL") \o keepLocal(reg, snap[2], "TEXT")
        \o keepLocal(reg, snap[3], "EFFECT") \o keepLocal(reg, snap[4], "GRID")

(* -------------------------------- tasks --------------------------------- *)

\* a task that is not suspended inside any function yet. The fields from
\* thrown on are history kept for the properties, and no code reads them: the
\* faults the task met, the styles it created, and the bindings when its
\* swapStyle call began and when it returned; then whether its
\* importRemoteStyle call has returned, and the document and the registry
\* when that call began and when it returned
NewTask(type) ==
    [type |-> type, pc |-> "start", fn |-> "",
     i |-> 0, j |-> 0, count |-> 0, newId |-> "", newStyle |-> "", found |-> <<>>,
     pos |-> 0, sid |-> "", map |-> <<>>, snap |-> <<>>, emit |-> <<>>,
     thrown |-> <<>>, made |-> 0, swapped |-> FALSE, doc0 |-> <<>>, doc1 |-> <<>>,
     imported |-> FALSE, before |-> <<>>, after |-> <<>>]

\* a host call of the task raised a fault: the call, and the walk position or
\* layer index it was made for
Fault(task, call, at) == [task EXCEPT !.thrown = Append(@, <<call, at>>)]

ScanResult(remoteStyles, localStyles) ==
    [type |-> "scan-result", count |-> 0, from |-> 0,
     remoteStyles |-> remoteStyles, localStyles |-> localStyles]

Notify(count) ==
    [type |-> "notify", count |-> count, from |-> 0,
     remoteStyles |-> <<>>, localStyles |-> <<>>]

\* a scan whose remoteStylesMap starts with an entry for every remote style
\* of the catalogue
BeginScanFromCatalogue(task, doc) ==
    LET q == NextCheck(doc, 0)
        listed == SelectSeq(collections["FILL"] \o collections["TEXT"]
                            \o collections["EFFECT"] \o collections["GRID"],
                            LAMBDA s : registry[s].remote)
        kept == [k \in 1..Len(listed) |->
                    [styleId |-> listed[k], styleName |-> registry[listed[k]].name,
                     styleType |-> registry[listed[k]].kind, layers |-> <<>>]]
    IN IF q = 0
       THEN [task EXCEPT !.pc = "getLocalPaintStylesAsync", !.fn = "getLocalStyles",
                         !.pos = 0, !.sid = "", !.map = kept, !.snap = <<>>]
       ELSE [task EXCEPT !.pc = "getStyleByIdAsync", !.fn = "findLayersWithRemoteStyles",
                         !.pos = q, !.sid = doc[CheckNode(q)][CheckBinding(q)],
                         !.map = kept, !.snap = <<>>]

\* a scan whose remoteStylesMap outlives the call: it starts from the entries
\* of the report sent last
BeginScanSharedMap(task, doc) ==
    LET q == NextCheck(doc, 0)
        reports == {k \in 1..Len(outbox) : outbox[k].type = "scan-result"}
        kept == IF reports = {} THEN <<>>
                ELSE outbox[CHOOSE k \in reports : \A r \in reports : r <= k].remoteStyles
    IN IF q = 0
       THEN [task EXCEPT !.pc = "getLocalPaintStylesAsync", !.fn = "getLocalStyles",
                         !.pos = 0, !.sid = "", !.map = kept, !.snap = <<>>]
       ELSE [task EXCEPT !.pc = "getStyleByIdAsync", !.fn = "findLayersWithRemoteStyles",
                         !.pos = q, !.sid = doc[CheckNode(q)][CheckBinding(q)],
                         !.map = kept, !.snap = <<>>]

\* the synchronous start of findLayersWithRemoteStyles: up to the first await
\* of the walk, or, with nothing to look up, to the first await of getLocalStyles
BeginScan(task, doc) ==
    LET q == NextCheck(doc, 0)
    IN IF q = 0
       THEN [task EXCEPT !.pc = "getLocalPaintStylesAsync", !.fn = "getLocalStyles",
                         !.pos = 0, !.sid = "", !.map = <<>>, !.snap = <<>>]
       ELSE [task EXCEPT !.pc = "getStyleByIdAsync", !.fn = "findLayersWithRemoteStyles",
                         !.pos = q, !.sid = doc[CheckNode(q)][CheckBinding(q)],
                         !.map = <<>>, !.snap = <<>>]

\* a handler's promise settled: the task keeps what it returned
Finish(task, pc) ==
    [task EXCEPT !.pc = pc, !.fn = "", !.pos = 0, !.sid = "", !.map = <<>>,
                 !.snap = <<>>, !.found = <<>>]

Running(t) == tasks[t].pc \notin {"done", "failed"}

\* what task t emitted, marked with the task it came from
Sent(t, emit) == [k \in 1..Len(emit) |-> [emit[k] EXCEPT !.from = t]]

\* the task is stored and what it emitted goes to the UI
Store(t, task) ==
    /\ tasks' = [tasks EXCEPT ![t] = [task EXCEPT !.emit = <<>>]]
    /\ outbox' = outbox \o Sent(t, task.emit)

\* checkStyle resumes from getStyleByIdAsync, and the walk goes on to the next
\* lookup or to getLocalStyles
ScanLookup(t) ==
    /\ ~closed
    /\ tasks[t].pc = "getStyleByIdAsync"
    /\ \E thrown \in BOOLEAN :
        /\ thrown => MayThrow("getStyleByIdAsync")
        /\ faults' = IF thrown THEN faults + 1 ELSE faults
        /\ LET p == tasks[t].pos
               task == IF thrown THEN Fault(tasks[t], "getStyleByIdAsync", p) ELSE tasks[t]
               map == checkStyle(task.map, registry, CheckNode(p), task.sid,
                                 BindingKind(CheckBinding(p)), thrown)
               q == NextCheck(nodes, p)
           IN Store(t, IF q = 0
                       THEN [task EXCEPT !.map = map, !.pos = 0, !.sid = "",
                                         !.pc = "getLocalPaintStylesAsync",
                                         !.fn = "getLocalStyles"]
                       ELSE [task EXCEPT !.map = map, !.pos = q,
                                         !.sid = nodes[CheckNode(q)][CheckBinding(q)]])
    /\ UNCHANGED <<nodes, registry, collections, selection, closed, req, flaky>>

\* getLocalStyles resumes from one of its four enumeration calls; after the
\* fourth the handler posts the scan result and ends
NextEnumeration(pc) ==
    CASE pc = "getLocalPaintStylesAsync" -> "getLocalTextStylesAsync"
      [] pc = "getLocalTextStylesAsync" -> "getLocalEffectStylesAsync"
      [] pc = "getLocalEffectStylesAsync" -> "getLocalGridStylesAsync"

EnumeratedKind(pc) ==
    CASE pc = "getLocalPaintStylesAsync" -> "FILL"
      [] pc = "getLocalTextStylesAsync" -> "TEXT"
      [] pc = "getLocalEffectStylesAsync" -> "EFFECT"
      [] pc = "getLocalGridStylesAsync" -> "GRID"

Enumerate(t) ==
    /\ ~closed
    /\ tasks[t].fn = "getLocalStyles"
    /\ \E thrown \in BOOLEAN :
        /\ thrown => MayThrow(tasks[t].pc)
        /\ faults' = IF thrown THEN faults + 1 ELSE faults
        /\ LET task == tasks[t]
               snap == Append(task.snap, collections[EnumeratedKind(task.pc)])
           IN Store(t, IF thrown THEN Finish(Fault(task, task.pc, 0), "failed")
                       ELSE IF task.pc # "getLocalGridStylesAsync"
                       THEN [task EXCEPT !.snap = snap, !.pc = NextEnumeration(task.pc)]
                       ELSE [Finish(task, "done") EXCEPT
                                !.emit = <<ScanResult(task.map,
                                                      getLocalStyles(registry, snap))>>])
    /\ UNCHANGED <<nodes, registry, collections, selection, closed, req, flaky>>

(* -------------------------------- swapStyle ------------------------------ *)

\* a FILL branch that forgets the stroke
SwapBindingsFillOnly(styleType) ==
    CASE styleType = "FILL" -> <<"fillStyleId">>
      [] styleType = "TEXT" -> <<"textStyleId">>
      [] styleType = "EFFECT" -> <<"effectStyleId">>
      [] styleType = "GRID" -> <<"gridStyleId">>
      [] OTHER -> <<>>

\* the bindings swapStyle tests for a kind, in the order of the source
SwapBindings(styleType) ==
    CASE styleType = "FILL" -> <<"fillStyleId", "strokeStyleId">>
      [] styleType = "TEXT" -> <<"textStyleId">>
      [] styleType = "EFFECT" -> <<"effectStyleId">>
      [] styleType = "GRID" -> <<"gridStyleId">>
      [] OTHER -> <<>>

Setter(b) ==
    CASE b = "fillStyleId" -> "setFillStyleIdAsync"
      [] b = "strokeStyleId" -> "setStrokeStyleIdAsync"
      [] b = "textStyleId" -> "setTextStyleIdAsync"
      [] b = "effectStyleId" -> "setEffectStyleIdAsync"
      [] b = "gridStyleId" -> "setGridStyleIdAsync"

Setters == {Setter(Bindings[k]) : k \in 1..5}

\* the handler has its count: it notifies the count and starts the rescan
Reply(task, doc) ==
    [BeginScan(task, doc) EXCEPT !.emit = <<Notify(task.count)>>, !.i = 0, !.j = 0]

\* swapStyle is called: count = 0 and the loop starts
SwapCall(task, newStyleId, doc) ==
    [task EXCEPT !.newId = newStyleId, !.count = 0, !.doc0 = doc]

\* importRemoteStyle is called
ImportCall(task) == [task EXCEPT !.before = [nodes |-> nodes, registry |-> registry]]

\* importRemoteStyle returns count to the handler (no step that reaches the
\* return creates a style, so the registry is the one of the state)
ImportReturn(task, doc) ==
    Reply([task EXCEPT !.imported = TRUE,
                       !.after = [nodes |-> doc, registry |-> registry]], doc)

\* swapStyle returns count: to the swap-style handler, or to importRemoteStyle,
\* which returns it
SwapReturn(task, doc) ==
    LET returned == [task EXCEPT !.swapped = TRUE, !.doc1 = doc]
    IN IF task.type = "import-style" THEN ImportReturn(returned, doc)
       ELSE Reply(returned, doc)

\* the head of swapStyle's loop at layerIds[i]: the node lookup, or the return
SwapLoop(task, msg, doc, i) ==
    IF i > Len(msg.layerIds) THEN SwapReturn(task, doc)
    ELSE [task EXCEPT !.pc = "getNodeByIdAsync", !.fn = "swapStyle", !.i = i, !.j = 0]

\* a count that goes up once per layer: only with the first binding tested
CountedPerLayer(task) == [task EXCEPT !.count = IF task.j = 1 THEN @ + 1 ELSE @]

\* count++
Counted(task) == [task EXCEPT !.count = @ + 1]

\* tests of 'xxxStyleId' in node alone, without the comparison to oldStyleId
SwapTestsUncompared(task, msg, doc, n, j) ==
    LET bs == SwapBindings(msg.styleType)
        hits == {k \in j..Len(bs) : Exposes(n, bs[k])}
    IN IF hits = {} THEN SwapLoop(task, msg, doc, task.i + 1)
       ELSE LET k == CHOOSE h \in hits : \A g \in hits : h <= g
            IN [task EXCEPT !.pc = Setter(bs[k]), !.j = k]

\* tests that take any bound style for the old one
SwapTestsAnyBound(task, msg, doc, n, j) ==
    LET bs == SwapBindings(msg.styleType)
        hits == {k \in j..Len(bs) : Exposes(n, bs[k]) /\ doc[n][bs[k]] \notin {"", Mixed}}
    IN IF hits = {} THEN SwapLoop(task, msg, doc, task.i + 1)
       ELSE LET k == CHOOSE h \in hits : \A g \in hits : h <= g
            IN [task EXCEPT !.pc = Setter(bs[k]), !.j = k]

\* inside the try block for node n: the tests of the kind's bindings from the
\* j-th on; the first that exposes the binding and equals oldStyleId awaits
\* its setter, and with none the loop goes to the next layer id
SwapTests(task, msg, doc, n, j) ==
    LET bs == SwapBindings(msg.styleType)
        hits == {k \in j..Len(bs) : Exposes(n, bs[k]) /\ doc[n][bs[k]] = msg.oldStyleId}
    IN IF hits = {} THEN SwapLoop(task, msg, doc, task.i + 1)
       ELSE LET k == CHOOSE h \in hits : \A g \in hits : h <= g
            IN [task EXCEPT !.pc = Setter(bs[k]), !.j = k]

\* swapStyle resumes from getNodeByIdAsync (outside the try block: a fault
\* rejects swapStyle and the handler that awaits it)
SwapGetNode(t) ==
    /\ ~closed
    /\ tasks[t].pc = "getNodeByIdAsync"
    /\ tasks[t].fn = "swapStyle"
    /\ \E thrown \in BOOLEAN :
        /\ thrown => MayThrow("getNodeByIdAsync")
        /\ faults' = IF thrown THEN faults + 1 ELSE faults
        /\ LET task == tasks[t]
               id == req.layerIds[task.i]
           IN Store(t, IF thrown THEN Finish(Fault(task, task.pc, task.i), "failed")
                       ELSE IF id \notin NodeIds THEN SwapLoop(task, req, nodes, task.i + 1)
                       ELSE SwapTests(task, req, nodes, id, 1))
    /\ UNCHANGED <<nodes, registry, collections, selection, closed, req, flaky>>

\* swapStyle resumes from a setter: count++ and the next test of the try
\* block, or the catch clause and the next layer id
SwapSet(t) ==
    /\ ~closed
    /\ tasks[t].pc \in Setters
    /\ \E thrown \in BOOLEAN :
        /\ thrown => MayThrow(tasks[t].pc)
        /\ faults' = IF thrown THEN faults + 1 ELSE faults
        /\ LET task == tasks[t]
               n == req.layerIds[task.i]
               b == SwapBindings(req.styleType)[task.j]
               doc == [nodes EXCEPT ![n][b] = task.newId]
           IN IF thrown
              THEN /\ nodes' = nodes
                   /\ Store(t, SwapLoop(Fault(task, task.pc, task.i), req, nodes, task.i + 1))
              ELSE /\ nodes' = doc
                   /\ Store(t, SwapTests(Counted(task), req, doc, n, task.j + 1))
    /\ UNCHANGED <<registry, collections, selection, closed, req, flaky>>

(* ---------------------------- importRemoteStyle ------------------------- *)

\* branch tests without the figma.mixed tests
QualifiesAnySource(doc, n, styleType) ==
    CASE styleType = "FILL" /\ Exposes(n, "fills") -> TRUE
      [] styleType = "TEXT" /\ NodeType(n) = "TEXT" -> TRUE
      [] styleType = "EFFECT" /\ Exposes(n, "effects") -> TRUE
      [] styleType = "GRID" /\ Exposes(n, "layoutGrids") -> TRUE
      [] OTHER -> FALSE

\* the test of the branch of the try block taken for styleType, with the
\* figma.mixed tests of the FILL and TEXT branches
Qualifies(doc, n, styleType) ==
    CASE styleType = "FILL" /\ Exposes(n, "fills") -> doc[n].fills # Mixed
      [] styleType = "TEXT" /\ NodeType(n) = "TEXT" -> doc[n].mixedProps \cap TextProps = {}
      [] styleType = "EFFECT" /\ Exposes(n, "effects") -> TRUE
      [] styleType = "GRID" /\ Exposes(n, "layoutGrids") -> TRUE
      [] OTHER -> FALSE

Created(reg) == {k \in 1..Len(NewStyleIds) : NewStyleIds[k] \in DOMAIN reg}

\* the id of the style the next createXxxStyle() call returns
FreshId(reg) == NewStyleIds[Cardinality(Created(reg)) + 1]

\* figma.createXxxStyle() followed by newStyle.name = styleName
createStyle(reg, kind, styleName) ==
    [s \in DOMAIN reg \cup {FreshId(reg)} |->
        IF s \in DOMAIN reg THEN reg[s]
        ELSE [name |-> styleName, remote |-> FALSE, kind |-> kind]]

\* a swapStyle that starts at the donor layer instead of the head of layerIds
ImportEndFromDonor(task, doc) ==
    IF task.newStyle # ""
    THEN SwapLoop(SwapCall(task, task.newStyle, doc), req, doc, task.i)
    ELSE ImportReturn([task EXCEPT !.count = 0], doc)

\* after the loop: swapStyle over the same layerIds with the new style's id,
\* or return 0
ImportEnd(task, doc) ==
    IF task.newStyle # ""
    THEN SwapLoop(SwapCall(task, task.newStyle, doc), req, doc, 1)
    ELSE ImportReturn([task EXCEPT !.count = 0], doc)

\* the head of importRemoteStyle's loop at layerIds[i]
ImportLoop(task, doc, i) ==
    IF i > Len(req.layerIds) THEN ImportEnd(task, doc)
    ELSE [task EXCEPT !.pc = "getNodeByIdAsync", !.fn = "importRemoteStyle", !.i = i]

\* the import-style handler resumes from figma.loadFontAsync
ImportFont(t) ==
    /\ ~closed
    /\ tasks[t].pc = "loadFontAsync"
    /\ \E thrown \in BOOLEAN :
        /\ thrown => MayThrow("loadFontAsync")
        /\ faults' = IF thrown THEN faults + 1 ELSE faults
        /\ Store(t, IF thrown THEN Finish(Fault(tasks[t], "loadFontAsync", 0), "failed")
                    ELSE ImportLoop(ImportCall(tasks[t]), nodes, 1))
    /\ UNCHANGED <<nodes, registry, collections, selection, closed, req, flaky>>

\* importRemoteStyle resumes from getNodeByIdAsync (outside the try block) and
\* runs the try block: the style is created, then named, then given the
\* layer's properties, then the loop breaks; a fault in the try block is
\* caught and the loop goes on
ImportGetNode(t) ==
    /\ ~closed
    /\ tasks[t].pc = "getNodeByIdAsync"
    /\ tasks[t].fn = "importRemoteStyle"
    /\ LET id == req.layerIds[tasks[t].i]
           fresh == FreshId(registry)
       IN \E outcome \in {"getNodeByIdAsync", "returns", "createStyle", "setProperties"} :
            /\ outcome # "returns" => MayThrow(outcome)
            /\ outcome \in {"createStyle", "setProperties"} =>
                    id \in NodeIds /\ Qualifies(nodes, id, req.styleType)
            /\ faults' = IF outcome # "returns" THEN faults + 1 ELSE faults
            /\ LET task == IF outcome = "returns" THEN tasks[t]
                           ELSE Fault(tasks[t], outcome, tasks[t].i)
                   made == [task EXCEPT !.newStyle = fresh, !.made = @ + 1]
               IN
               IF outcome = "getNodeByIdAsync"
               THEN /\ Store(t, Finish(task, "failed"))
                    /\ UNCHANGED <<registry, collections>>
               ELSE IF id \notin NodeIds \/ ~Qualifies(nodes, id, req.styleType)
                       \/ outcome = "createStyle"
               THEN /\ Store(t, ImportLoop(task, nodes, task.i + 1))
                    /\ UNCHANGED <<registry, collections>>
               ELSE /\ registry' = createStyle(registry, req.styleType, req.styleName)
                    /\ collections' = [collections EXCEPT ![req.styleType] = Append(@, fresh)]
                    /\ Store(t, IF outcome = "setProperties"
                                THEN ImportLoop(made, nodes, task.i + 1)
                                ELSE ImportEnd(made, nodes))
    /\ UNCHANGED <<nodes, selection, closed, req, flaky>>

(* ------------------------------- selectLayers --------------------------- *)

\* selectLayers resumes from getNodeByIdAsync; after the last id it sets the
\* page's selection
SelectGetNode(t) ==
    /\ ~closed
    /\ tasks[t].pc = "getNodeByIdAsync"
    /\ tasks[t].fn = "selectLayers"
    /\ \E thrown \in BOOLEAN :
        /\ thrown => MayThrow("getNodeByIdAsync")
        /\ faults' = IF thrown THEN faults + 1 ELSE faults
        /\ LET task == tasks[t]
               id == req.layerIds[task.i]
               found == IF id \in NodeIds THEN Append(task.found, id) ELSE task.found
           IN IF thrown
              THEN /\ Store(t, Finish(Fault(task, task.pc, task.i), "failed"))
                   /\ selection' = selection
              ELSE IF task.i < Len(req.layerIds)
              THEN /\ Store(t, [task EXCEPT !.found = found, !.i = @ + 1])
                   /\ selection' = selection
              ELSE /\ Store(t, Finish(task, "done"))
                   /\ selection' = found
    /\ UNCHANGED <<nodes, registry, collections, closed, req, flaky>>

(* ---------------------------- figma.ui.onmessage ------------------------ *)

MessageTypes == {"scan", "select-layers", "swap-style", "import-style"}

\* the handler's synchronous start for a message: up to its first await
Handle(type, msg) ==
    CASE type = "scan" -> BeginScan(NewTask(type), nodes)
      [] type = "select-layers" ->
            IF msg.layerIds = <<>> THEN Finish(NewTask(type), "done")
            ELSE [NewTask(type) EXCEPT !.pc = "getNodeByIdAsync", !.fn = "selectLayers", !.i = 1]
      [] type = "swap-style" ->
            SwapLoop(SwapCall(NewTask(type), msg.newStyleId, nodes), msg, nodes, 1)
      [] type = "import-style" -> [NewTask(type) EXCEPT !.pc = "loadFontAsync"]

\* the host delivers a message of the UI to figma.ui.onmessage: the first
\* message is any request, a later one is the same request sent again
Deliver(type, msg) ==
    /\ ~closed
    /\ Len(tasks) > 1 => tasks[Len(tasks)].type = type /\ msg = req
    /\ LET task == Handle(type, msg)
       IN /\ tasks' = Append(tasks, [task EXCEPT !.emit = <<>>])
          /\ outbox' = outbox \o Sent(Len(tasks) + 1, task.emit)
          /\ selection' = IF type = "select-layers" /\ msg.layerIds = <<>>
                          THEN <<>> ELSE selection
    /\ req' = msg
    /\ UNCHANGED <<nodes, registry, collections, closed, faults, flaky>>

\* what the UI can send now: any request first, then the same request again
Sendable(type) == IF Len(tasks) = 1 THEN Payloads(type) ELSE {req}

\* the close message: figma.closePlugin() ends the session and every task
Close ==
    /\ ~closed
    /\ closed' = TRUE
    /\ UNCHANGED <<nodes, registry, collections, tasks, outbox, selection, req, faults, flaky>>

\* a suspended task resumes
Step(t) ==
    \/ ScanLookup(t)
    \/ Enumerate(t)
    \/ SwapGetNode(t)
    \/ SwapSet(t)
    \/ ImportFont(t)
    \/ ImportGetNode(t)
    \/ SelectGetNode(t)

Enumerations ==
    {"getLocalPaintStylesAsync", "getLocalTextStylesAsync",
     "getLocalEffectStylesAsync", "getLocalGridStylesAsync"}

\* the host calls of a scan, and those of swapStyle and importRemoteStyle
ScanCalls == {"getStyleByIdAsync"} \cup Enumerations
EditCalls == {"getNodeByIdAsync", "loadFontAsync", "createStyle", "setProperties"} \cup Setters

\* the plugin is loaded: the initial scan has run up to its first await
Loaded(calls) ==
    /\ nodes \in Documents
    /\ registry = InitialRegistry
    /\ collections = InitialCollections
    /\ outbox = <<>>
    /\ tasks = <<BeginScan(NewTask("init"), nodes)>>
    /\ selection = <<>>
    /\ closed = FALSE
    /\ req = NoRequest
    /\ faults = 0
    /\ flaky = calls

\* any host call can raise a fault
Init == Loaded(ScanCalls \cup EditCalls)

\* the calls of swapStyle and importRemoteStyle can raise a fault, and the
\* scans run undisturbed
InitEdit == Loaded(EditCalls)

\* a host none of whose calls raises a fault
InitReliable == Loaded({})

\* tasks suspended at a host call
Overlap == Cardinality({t \in 1..Len(tasks) : Running(t)})

\* a message of one of the given types arrives while fewer than n tasks are
\* suspended and fewer than m messages have arrived
Arrive(types, n, m) ==
    /\ Overlap < n
    /\ Len(tasks) <= m
    /\ \E type \in types : \E msg \in Sendable(type) : Deliver(type, msg)

\* the plugin as the host runs it: a message is delivered whenever the event
\* loop is free, which it is while a task is suspended at a host call
Next ==
    \/ Arrive(MessageTypes, MaxOverlap, MaxRaced)
    \/ \E t \in 1..Len(tasks) : Step(t)

Spec == InitReliable /\ [][Next]_vars

\* one command at a time: a message is delivered only when no task is
\* suspended (the discipline of a caller that awaits each reply); the close
\* message can come at any point
NextSeq ==
    \/ Arrive(MessageTypes, 1, MaxMsgs)
    \/ Close
    \/ \E t \in 1..Len(tasks) : Step(t)

SpecSeq == Init /\ [][NextSeq]_vars

\* one command at a time, and every command a scan
NextScan ==
    \/ Arrive({"scan"}, 1, MaxMsgs)
    \/ \E t \in 1..Len(tasks) : Step(t)

SpecScan == Init /\ [][NextScan]_vars

\* one command at a time, and every command a swap-style
NextSwap ==
    \/ Arrive({"swap-style"}, 1, MaxMsgs)
    \/ \E t \in 1..Len(tasks) : Step(t)

SpecSwap == InitEdit /\ [][NextSwap]_vars

\* one command at a time, and every command an import-style
NextImport ==
    \/ Arrive({"import-style"}, 1, MaxMsgs)
    \/ \E t \in 1..Len(tasks) : Step(t)

SpecImport == InitEdit /\ [][NextImport]_vars

\* one command at a time, of any type, and no close message
NextFrame ==
    \/ Arrive(MessageTypes, 1, MaxMsgs)
    \/ \E t \in 1..Len(tasks) : Step(t)

SpecFrame == InitEdit /\ [][NextFrame]_vars

(* ------------------------------ properties ------------------------------ *)

Tasks == 1..Len(tasks)

\* findLayersWithRemoteStyles of task t has returned, and t.map is its result
ScanReturned(t) == tasks[t].fn = "getLocalStyles"

\* the walk positions (layer indices) at which the call raised a fault in t
ThrownAt(t, call) ==
    {tasks[t].thrown[k][2] : k \in {h \in 1..Len(tasks[t].thrown) : tasks[t].thrown[h][1] = call}}

\* the list has an entry for styleId whose layer list names node n
Reported(list, styleId, n) ==
    \E k \in 1..Len(list) :
        /\ list[k].styleId = styleId
        /\ \E l \in 1..Len(list[k].layers) : list[k].layers[l].id = n

\* the lookup of the style bound at walk position p cannot show it local: the
\* registry has no such style, or has it remote, or the lookup raised a fault
NotShownLocal(t, p) ==
    LET sid == nodes[CheckNode(p)][CheckBinding(p)]
    IN \/ sid \notin DOMAIN registry
       \/ sid \in DOMAIN registry /\ registry[sid].remote
       \/ p \in ThrownAt(t, "getStyleByIdAsync")

\* C2: no false negatives in a scan.  When findLayersWithRemoteStyles has
\* returned, every binding of every node under the page that holds a
\* non-empty identifier whose lookup returned nothing, returned a remote
\* style or raised a fault has an entry for the identifier that lists the
\* node; and no task was ended by a fault of the style lookup.
C2_NoFalseNegatives ==
    \A t \in Tasks :
        /\ ScanReturned(t) =>
              \A p \in 1..NumChecks :
                  LET n == CheckNode(p)
                      sid == nodes[n][CheckBinding(p)]
                  IN (Exposes(n, CheckBinding(p)) /\ sid \notin {"", Mixed}
                        /\ NotShownLocal(t, p))
                     => Reported(tasks[t].map, sid, n)
        /\ tasks[t].pc = "failed" =>
              tasks[t].thrown[Len(tasks[t].thrown)][1] # "getStyleByIdAsync"

\* a scan returned after the lookup of a local style raised a fault, and the
\* style is in the result with the node
C2_Witness ==
    \E t \in Tasks : \E p \in 1..NumChecks :
        LET sid == nodes[CheckNode(p)][CheckBinding(p)]
        IN /\ ScanReturned(t)
           /\ p \in ThrownAt(t, "getStyleByIdAsync")
           /\ sid \in DOMAIN registry /\ ~registry[sid].remote
           /\ Reported(tasks[t].map, sid, CheckNode(p))

\* the scan results sent so far, as positions of outbox
Reports == {k \in 1..Len(outbox) : outbox[k].type = "scan-result"}

SameReport(a, b) ==
    /\ outbox[a].remoteStyles = outbox[b].remoteStyles
    /\ outbox[a].localStyles = outbox[b].localStyles

\* no host call of the task that sent outbox[k] raised a fault
Undisturbed(k) == tasks[outbox[k].from].thrown = <<>>

\* C10 (as amended): scan determinism.  Two scans of a document that is not
\* mutated between them, in neither of which a host call raised a fault, send
\* identical remoteStyles and identical localStyles.
C10_ScanDeterminism ==
    \A a \in Reports : \A b \in Reports :
        (Undisturbed(a) /\ Undisturbed(b)) => SameReport(a, b)

\* C10 as stated: any two scans with no mutation between them send identical
\* reports
C10_AsStated == \A a \in Reports : \A b \in Reports : SameReport(a, b)

\* two undisturbed scans have sent their reports, and the reports list
\* remote styles and local styles
C10_Witness ==
    \E a \in Reports : \E b \in Reports :
        /\ a < b /\ Undisturbed(a) /\ Undisturbed(b)
        /\ outbox[a].remoteStyles # <<>> /\ outbox[a].localStyles # <<>>
        /\ SameReport(a, b)

\* the swapStyle call of task t has returned (t.count is what it returned)
Swapped(t) == tasks[t].type = "swap-style" /\ tasks[t].swapped

BindingSet == {Bindings[k] : k \in 1..Len(Bindings)}

\* the (node, binding) pairs whose binding the swapStyle call of t changed
Changed(t) ==
    {nb \in NodeIds \X BindingSet : tasks[t].doc0[nb[1]][nb[2]] # tasks[t].doc1[nb[1]][nb[2]]}

\* t and t + 1 are two consecutive calls of swapStyle with the same
\* arguments, and nothing changed the document between them
CalledTwice(t) ==
    /\ t + 1 \in Tasks
    /\ Swapped(t) /\ Swapped(t + 1)
    /\ tasks[t + 1].doc0 = tasks[t].doc1

\* C1 (as amended): rebind idempotence.  When swapStyle is called twice in a
\* row with the same arguments, oldStyleId differs from newStyleId and no
\* host call of the first call raised a fault, the second call returns 0 and
\* changes no binding.
C1_Idempotent ==
    \A t \in Tasks :
        (CalledTwice(t) /\ req.oldStyleId # req.newStyleId /\ tasks[t].thrown = <<>>)
        => tasks[t + 1].count = 0 /\ Changed(t + 1) = {}

\* C1 as stated: the second of two consecutive calls returns 0 and changes no
\* binding, whatever the arguments and the host did
C1_AsStated ==
    \A t \in Tasks : CalledTwice(t) => tasks[t + 1].count = 0 /\ Changed(t + 1) = {}

\* a first call rebound two bindings of one node, and the same call again
\* returned 0
C1_Witness ==
    \E t \in Tasks :
        /\ CalledTwice(t) /\ req.oldStyleId # req.newStyleId /\ tasks[t].thrown = <<>>
        /\ tasks[t].count = 2
        /\ tasks[t + 1].count = 0

\* C8 (as amended): when oldStyleId differs from newStyleId, the value
\* swapStyle returns is the number of (node, binding) pairs the call changed,
\* each of them from oldStyleId to newStyleId.
C8_CountsBindings ==
    \A t \in Tasks :
        (Swapped(t) /\ req.oldStyleId # req.newStyleId) =>
            /\ tasks[t].count = Cardinality(Changed(t))
            /\ \A nb \in Changed(t) :
                  /\ tasks[t].doc0[nb[1]][nb[2]] = req.oldStyleId
                  /\ tasks[t].doc1[nb[1]][nb[2]] = req.newStyleId

\* C8 as stated: the value returned is the number of pairs changed, for any
\* oldStyleId and newStyleId
C8_AsStated == \A t \in Tasks : Swapped(t) => tasks[t].count = Cardinality(Changed(t))

\* a call that named one node twice, whose fill and stroke both held
\* oldStyleId, returned 2
C8_Witness ==
    \E t \in Tasks :
        /\ Swapped(t) /\ req.oldStyleId # req.newStyleId
        /\ Len(req.layerIds) = 2 /\ req.layerIds[1] = req.layerIds[2]
        /\ tasks[t].count = 2
        /\ \E n \in NodeIds : Changed(t) = {<<n, "fillStyleId">>, <<n, "strokeStyleId">>}

\* C7 as stated: in a FILL call, the stroke of a named node that held
\* oldStyleId holds newStyleId when the call returns, unless the stroke
\* update itself raised a fault, whatever became of the fill update.
C7_StrokeIndependent ==
    \A t \in Tasks :
        (Swapped(t) /\ req.styleType = "FILL") =>
            \A i \in 1..Len(req.layerIds) :
                LET n == req.layerIds[i]
                IN (n \in NodeIds /\ tasks[t].doc0[n].strokeStyleId = req.oldStyleId
                        /\ ThrownAt(t, "setStrokeStyleIdAsync") = {})
                   => tasks[t].doc1[n].strokeStyleId = req.newStyleId

\* the ids of the layers of a report entry
LayerIdsOf(entry) == [l \in 1..Len(entry.layers) |-> entry.layers[l].id]

\* the scan result task t sent, as a set of positions of outbox
ReportOf(t) == {k \in Reports : outbox[k].from = t}

\* the request of t rebinds entry e of the scan result before it to a local
\* style that is not remote
RebindsEntry(t, e) ==
    /\ tasks[t].type = "swap-style"
    /\ req.oldStyleId = e.styleId
    /\ req.styleType = e.styleType
    /\ req.layerIds = LayerIdsOf(e)
    /\ req.newStyleId \in DOMAIN registry /\ ~registry[req.newStyleId].remote

\* C9: rebinding a report entry removes it.  When a swap-style request made
\* from an entry of the scan result before it (its layers, its identifier,
\* its kind, and a local style that is not remote) has been handled with no
\* host call raising a fault, the rescan's remoteStyles has no entry with
\* that identifier.
C9_EntryRemoved ==
    \A t \in Tasks : \A a \in ReportOf(t - 1) : \A b \in ReportOf(t) :
        \A k \in 1..Len(outbox[a].remoteStyles) :
            (faults = 0 /\ RebindsEntry(t, outbox[a].remoteStyles[k]))
            => \A h \in 1..Len(outbox[b].remoteStyles) :
                  outbox[b].remoteStyles[h].styleId # outbox[a].remoteStyles[k].styleId

\* the entry of a style bound to the fill and the stroke of one node, so
\* that its layer list names the node twice, was rebound and the rescan sent
C9_Witness ==
    \E t \in Tasks : \E a \in ReportOf(t - 1) : \E b \in ReportOf(t) :
        \E k \in 1..Len(outbox[a].remoteStyles) :
            /\ faults = 0 /\ RebindsEntry(t, outbox[a].remoteStyles[k])
            /\ Len(req.layerIds) = 2
            /\ tasks[t].count = 2
            /\ outbox[b].remoteStyles # <<>>

\* C3 as stated: one importRemoteStyle call creates at most one style, also
\* when copying the properties onto a created style raised a fault.
C3_AtMostOneStyle == \A t \in Tasks : tasks[t].made <= 1

\* C4 as stated: command atomicity, no two handlers are in progress at the
\* same time.
C4_OneAtATime == Overlap <= 1

\* the handler of task t is over: its promise resolved or rejected
Settled(t) == tasks[t].pc \in {"done", "failed"}

Mutating(t) == tasks[t].type \in {"swap-style", "import-style"}

\* the types of the messages task t emitted, in order
SentBy(t) ==
    LET mine == SelectSeq(outbox, LAMBDA m : m.from = t)
    IN [k \in 1..Len(mine) |-> mine[k].type]

\* the host calls made inside swapStyle and importRemoteStyle
StepCalls == {"getNodeByIdAsync", "createStyle", "setProperties"} \cup Setters

\* every fault task t met was raised by a call inside its rebind or
\* materialize step
FaultsInStepOnly(t) ==
    \A k \in 1..Len(tasks[t].thrown) : tasks[t].thrown[k][1] \in StepCalls

\* C5 as stated: a swap-style or import-style handler that is over, having
\* met faults only inside its rebind or materialize step, has emitted the
\* count notification and then the scan result of its rescan.
C5_Answered ==
    \A t \in Tasks :
        (Mutating(t) /\ Settled(t) /\ FaultsInStepOnly(t))
        => SentBy(t) = <<"notify", "scan-result">>

\* C6 as stated: in swapStyle and importRemoteStyle a fault of the
\* node-by-id lookup for one layer id does not end the operation.
C6_LookupIsolated ==
    \A t \in Tasks :
        (Mutating(t) /\ ThrownAt(t, "getNodeByIdAsync") # {}) => tasks[t].pc # "failed"

\* the importRemoteStyle call of task t has returned (t.count is what it
\* returned)
ImportReturned(t) == tasks[t].type = "import-style" /\ tasks[t].imported

\* the layer ids the request names
Named == {req.layerIds[i] : i \in 1..Len(req.layerIds)}

\* layer n can serve as donor of a style of the kind: its id resolves, it
\* exposes the source property of the kind, and the source is not mixed
Donor(doc, n, kind) ==
    /\ n \in NodeIds
    /\ \/ kind = "FILL" /\ Exposes(n, "fills") /\ doc[n].fills # Mixed
       \/ kind = "TEXT" /\ NodeType(n) = "TEXT" /\ doc[n].mixedProps = {}
       \/ kind = "EFFECT" /\ Exposes(n, "effects")
       \/ kind = "GRID" /\ Exposes(n, "layoutGrids")

\* the named layers that could serve as donor when the call of t began
Donors(t) == {n \in Named : Donor(tasks[t].before.nodes, n, req.styleType)}

\* C11: materialize with no qualifying donor.  When importRemoteStyle has
\* returned from a call whose layerIds is empty or names no layer that
\* resolves, exposes the source property and has it unmixed, it returned 0,
\* created no style and changed no binding.
C11_NoDonor ==
    \A t \in Tasks :
        (ImportReturned(t) /\ Donors(t) = {}) =>
            /\ tasks[t].count = 0
            /\ tasks[t].made = 0
            /\ tasks[t].after = tasks[t].before

\* a call that named a layer whose fills are mixed, and a stale id, for a
\* FILL style has returned
C11_Witness ==
    \E t \in Tasks : \E n \in Named :
        /\ ImportReturned(t) /\ Donors(t) = {}
        /\ req.styleType = "FILL" /\ n \in NodeIds
        /\ tasks[t].before.nodes[n].fills = Mixed
        /\ Named \ NodeIds # {}
        /\ tasks[t].count = 0

\* the (node, binding) pairs whose binding the importRemoteStyle call of t
\* changed
ImportChanged(t) ==
    {nb \in NodeIds \X BindingSet :
        tasks[t].before.nodes[nb[1]][nb[2]] # tasks[t].after.nodes[nb[1]][nb[2]]}

\* the styles the importRemoteStyle call of t added to the document
NewStyles(t) == DOMAIN tasks[t].after.registry \ DOMAIN tasks[t].before.registry

\* the bindings of the requested kind on the named layers that held
\* oldStyleId when the call of t began
Held(t) ==
    {nb \in (Named \cap NodeIds) \X BindingSet :
        /\ BindingKind(nb[2]) = req.styleType
        /\ Exposes(nb[1], nb[2])
        /\ tasks[t].before.nodes[nb[1]][nb[2]] = req.oldStyleId}

\* what C12 promises of the returned call of t
OneStyleForAll(t) ==
    /\ tasks[t].made = 1
    /\ Cardinality(NewStyles(t)) = 1
    /\ \A nb \in Held(t) : tasks[t].after.nodes[nb[1]][nb[2]] \in NewStyles(t)
    /\ ImportChanged(t) = Held(t)
    /\ tasks[t].count = Cardinality(Held(t))

\* C12 (as amended): materialize with one donor.  When importRemoteStyle has
\* returned from a call in which no host call raised a fault and exactly one
\* named layer qualifies as donor, it created exactly one local style, every
\* binding of the kind on a named layer that held oldStyleId (on layers
\* before the donor and on layers that are no donor too) holds the new
\* style's id, nothing else changed, and it returned the number of bindings
\* changed.
C12_OneDonor ==
    \A t \in Tasks :
        (ImportReturned(t) /\ tasks[t].thrown = <<>> /\ Cardinality(Donors(t)) = 1)
        => OneStyleForAll(t)

\* C12 as stated: the same whatever the host calls did
C12_AsStated ==
    \A t \in Tasks :
        (ImportReturned(t) /\ Cardinality(Donors(t)) = 1) => OneStyleForAll(t)

\* a call whose first layer is no donor but holds oldStyleId, followed by the
\* donor, has returned 2
C12_Witness ==
    \E t \in Tasks :
        /\ ImportReturned(t) /\ tasks[t].thrown = <<>> /\ Cardinality(Donors(t)) = 1
        /\ Len(req.layerIds) = 2
        /\ req.layerIds[1] \notin Donors(t)
        /\ req.layerIds[2] \in Donors(t)
        /\ \E b \in BindingSet : <<req.layerIds[1], b>> \in Held(t)
        /\ tasks[t].count = 2

\* the nodes reachable from the page's children
Reachable == {VisitOrder[k] : k \in 1..Len(VisitOrder)}

\* some binding of some reachable node holds the identifier
HeldBySomeNode(doc, styleId) ==
    \E n \in Reachable : \E b \in BindingSet : Exposes(n, b) /\ doc[n][b] = styleId

\* C13: no false positives from the catalogue.  Every entry of the result of
\* findLayersWithRemoteStyles, and of every scan-result sent, has an
\* identifier that some binding of some node reachable from the page's
\* children holds, whatever styles the registry and the collections have.
C13_NoFalsePositives ==
    /\ \A t \in Tasks :
          ScanReturned(t) =>
              \A k \in 1..Len(tasks[t].map) : HeldBySomeNode(nodes, tasks[t].map[k].styleId)
    /\ \A r \in Reports :
          \A k \in 1..Len(outbox[r].remoteStyles) :
              HeldBySomeNode(nodes, outbox[r].remoteStyles[k].styleId)

\* a scan result with entries was sent while the catalogue has a remote style
\* that no node is bound to, and the result has no entry for it
C13_Witness ==
    \E r \in Reports : \E s \in DOMAIN registry :
        /\ registry[s].remote
        /\ \E k \in 1..Len(collections[registry[s].kind]) : collections[registry[s].kind][k] = s
        /\ ~HeldBySomeNode(nodes, s)
        /\ outbox[r].remoteStyles # <<>>
        /\ ~HasEntry(outbox[r].remoteStyles, s)

\* the least walk position of a set of positions
First(positions) == CHOOSE p \in positions : \A q \in positions : p <= q

\* the walk positions at which a binding holding the identifier is checked
Refs(styleId) ==
    {p \in 1..NumChecks : NeedsLookup(nodes, p) /\ nodes[CheckNode(p)][CheckBinding(p)] = styleId}

\* those of them at which the lookup of task t did not show the style local
ShownRefs(t, styleId) == {p \in Refs(styleId) : NotShownLocal(t, p)}

\* the entries of the list have distinct identifiers
OneEntryEach(list) ==
    \A i, j \in 1..Len(list) : list[i].styleId = list[j].styleId => i = j

\* C14 (as amended): first-encounter order.  In the result of
\* findLayersWithRemoteStyles each identifier has exactly one entry, and entry
\* A precedes entry B exactly when the first binding holding A's identifier
\* whose lookup returned nothing, returned a remote style or raised a fault
\* is met before the first such binding of B's identifier, in the pre-order
\* walk that checks fill, stroke, text, effect, grid of a node before its
\* children.
C14_FirstEncounter ==
    \A t \in Tasks :
        ScanReturned(t) =>
            /\ OneEntryEach(tasks[t].map)
            /\ \A i, j \in 1..Len(tasks[t].map) :
                  i < j <=> First(ShownRefs(t, tasks[t].map[i].styleId))
                              < First(ShownRefs(t, tasks[t].map[j].styleId))

\* C14 as stated: the order is that of the first binding referencing each
\* identifier
C14_AsStated ==
    \A t \in Tasks :
        ScanReturned(t) =>
            /\ OneEntryEach(tasks[t].map)
            /\ \A i, j \in 1..Len(tasks[t].map) :
                  i < j <=> First(Refs(tasks[t].map[i].styleId))
                              < First(Refs(tasks[t].map[j].styleId))

\* a scan returned five entries, the last of them for a style whose first
\* reference was looked up as local and whose second lookup raised a fault
C14_Witness ==
    \E t \in Tasks : \E k \in 1..Len(tasks[t].map) :
        /\ ScanReturned(t)
        /\ Len(tasks[t].map) = 5 /\ k = 5
        /\ First(Refs(tasks[t].map[k].styleId)) < First(ShownRefs(t, tasks[t].map[k].styleId))

\* the styles of one collection whose remote flag is not set, in the
\* collection's order, tagged with the kind
LocalOf(kind) ==
    LET ids == SelectSeq(collections[kind], LAMBDA s : ~registry[s].remote)
    IN [k \in 1..Len(ids) |-> [id |-> ids[k], name |-> registry[ids[k]].name, type |-> kind]]

LocalCatalogue == LocalOf("FILL") \o LocalOf("TEXT") \o LocalOf("EFFECT") \o LocalOf("GRID")

\* the scan result at outbox[r] was sent by the latest task, so that the
\* catalogue is still the one getLocalStyles enumerated
Latest(r) == outbox[r].from = Len(tasks)

\* C15: the local catalogue.  The localStyles of a scan result are exactly
\* the styles of the four collections of the document whose remote flag is
\* not set, each tagged with the kind of its collection, the kinds in the
\* order Fill, Text, Effect, Grid and each collection in its own order.
C15_LocalCatalogue ==
    \A r \in Reports : Latest(r) => outbox[r].localStyles = LocalCatalogue

\* a scan result sent after an import lists a style the import created
\* before the styles of the later kinds, and not the remote style of the
\* same collection
C15_Witness ==
    \E r \in Reports : \E k \in 1..Len(outbox[r].localStyles) :
        /\ Latest(r)
        /\ outbox[r].localStyles[k].id = NewStyleIds[1]
        /\ k < Len(outbox[r].localStyles)
        /\ \E s \in DOMAIN registry :
              /\ registry[s].remote
              /\ \E h \in 1..Len(collections[outbox[r].localStyles[k].type]) :
                    collections[outbox[r].localStyles[k].type][h] = s

RECURSIVE ScanFrom(_, _, _, _)
\* the walk from position p on over a document and a registry that do not
\* change, with no fault of a lookup
ScanFrom(map, doc, reg, p) ==
    IF p > NumChecks THEN map
    ELSE ScanFrom(IF NeedsLookup(doc, p)
                  THEN checkStyle(map, reg, CheckNode(p), doc[CheckNode(p)][CheckBinding(p)],
                                  BindingKind(CheckBinding(p)), FALSE)
                  ELSE map,
                  doc, reg, p + 1)

\* what a scan of the given content returns
FullScan(doc, reg) == ScanFrom(<<>>, doc, reg, 1)

\* the scan result emitted last
LastReport == CHOOSE r \in Reports : \A q \in Reports : q <= r

\* C16 as stated: report consistency.  Once every handler has finished, the
\* scan result emitted last is what a scan of the document as it is now
\* returns.
C16_ReportConsistent ==
    (Reports # {} /\ \A t \in Tasks : Settled(t))
    => outbox[LastReport].remoteStyles = FullScan(nodes, registry)

\* the nodes under the page: its children and their descendants
RECURSIVE Under(_, _)
Under(ns, depth) ==
    IF depth = 0 THEN ns
    ELSE Under(ns \cup {c \in NodeIds : \E n \in ns :
                            \E k \in 1..Len(Children(n)) : Children(n)[k] = c},
               depth - 1)

Descendants == Under({PageChildren[k] : k \in 1..Len(PageChildren)}, Cardinality(NodeIds))

\* how many records of the layer list name node n
Records(layers, n) == Cardinality({l \in 1..Len(layers) : layers[l].id = n})

\* C17: layer-list multiplicity.  In the result of
\* findLayersWithRemoteStyles, for every entry and every node, the entry's
\* layer list has as many records of the node as the node has bindings
\* holding the entry's identifier whose lookup returned nothing, returned a
\* remote style or raised a fault; and the walk enters every node under the
\* page exactly once.
C17_Multiplicity ==
    /\ \A n \in Descendants :
          Cardinality({k \in 1..Len(VisitOrder) : VisitOrder[k] = n}) = 1
    /\ \A k \in 1..Len(VisitOrder) : VisitOrder[k] \in Descendants
    /\ \A t \in Tasks :
          ScanReturned(t) =>
              \A k \in 1..Len(tasks[t].map) : \A n \in NodeIds :
                  Records(tasks[t].map[k].layers, n)
                      = Cardinality({p \in ShownRefs(t, tasks[t].map[k].styleId) : CheckNode(p) = n})

\* a scan returned an entry that names a node twice, for its fill and its
\* stroke, and a nested node once
C17_Witness ==
    \E t \in Tasks : \E k \in 1..Len(tasks[t].map) : \E n \in NodeIds :
        /\ ScanReturned(t)
        /\ nodes[n].fillStyleId = tasks[t].map[k].styleId
        /\ nodes[n].strokeStyleId = tasks[t].map[k].styleId
        /\ Records(tasks[t].map[k].layers, n) = 2
        /\ \E h \in 1..Len(tasks[t].map) : \E c \in NodeIds \ {PageChildren[i] : i \in 1..Len(PageChildren)} :
              Records(tasks[t].map[h].layers, c) = 1

\* the properties of a node that are no style binding
Sources == {"fills", "mixedProps"}

\* C18: frame of rebind and scan.  A step changes a binding only when it is
\* a step of swapStyle, the binding is of the requested kind (fill or stroke
\* for FILL), on a node named in layerIds, held oldStyleId before the step
\* and holds the new style's id after it; no step changes another property
\* of a node; and no step of swapStyle, findLayersWithRemoteStyles,
\* getLocalStyles or selectLayers changes the style registry or a
\* collection.
C18_Frame ==
    [][ /\ \A n \in NodeIds : \A b \in BindingSet :
              nodes'[n][b] # nodes[n][b] =>
                  \E t \in Tasks :
                      /\ tasks[t].fn = "swapStyle"
                      /\ tasks[t].type = "swap-style" => tasks[t].newId = req.newStyleId
                      /\ n \in Named
                      /\ BindingKind(b) = req.styleType
                      /\ nodes[n][b] = req.oldStyleId
                      /\ nodes'[n][b] = tasks[t].newId
        /\ \A n \in NodeIds : \A p \in Sources : nodes'[n][p] = nodes[n][p]
        /\ (registry' # registry \/ collections' # collections) =>
              \E t \in Tasks : tasks[t].fn = "importRemoteStyle"
      ]_vars

\* a swapStyle call changed a binding and returned, while a node it was not
\* given still holds oldStyleId in a binding of the kind, and a node it was
\* given holds another style in a binding of another kind
C18_Witness ==
    \E t \in Tasks :
        /\ Swapped(t) /\ Changed(t) # {}
        /\ \E n \in NodeIds \ Named : \E b \in BindingSet :
              /\ BindingKind(b) = req.styleType
              /\ tasks[t].doc1[n][b] = req.oldStyleId
        /\ \E n \in Named \cap NodeIds : \E b \in BindingSet :
              /\ BindingKind(b) # req.styleType
              /\ tasks[t].doc1[n][b] \notin {"", Mixed}
              /\ tasks[t].doc1[n][b] = tasks[t].doc0[n][b]

\* C19 as stated: a zero count from import means nothing happened.  When
\* importRemoteStyle has returned 0, the call created no style and the style
\* registry is as it was when the call began.
C19_ZeroMeansNothing ==
    \A t \in Tasks :
        (ImportReturned(t) /\ tasks[t].count = 0) =>
            /\ tasks[t].made = 0
            /\ tasks[t].after.registry = tasks[t].before.registry

====
